---------------------------- MODULE Spec2Model ----------------------------
(***************************************************************************)
(* A model of zotify's download orchestration: App.__init__ (selection,    *)
(* parse, download_all, exit), App.parse, App.download_all and the exit    *)
(* codes of __main__.main.                                                 *)
(*                                                                         *)
(* Spec is one run on a list of references; SpecRuns lets the command be   *)
(* given again on the disk the earlier runs left; SpecBatch is the run up  *)
(* to the end of the metadata batching on an album and a show of many ids; *)
(* SpecOAuth is the creation of the session through OAuth: the main        *)
(* thread, the callback server's thread and the shutdown threads.          *)
(*                                                                         *)
(* Strings are sequences of one-character strings; a template is a         *)
(* sequence whose elements are characters or whole "{name}" placeholders;  *)
(* a file extension (".mp3") is one element.                               *)
(***************************************************************************)
EXTENDS Integers, Sequences, FiniteSets, TLC

(***************************************************************************)
(* Bounds of the model and constants of the program                        *)
(***************************************************************************)
\* longest list of references given on the command line
MaxLinks == 2

\* app.py:222  link[-23]: the delimiter is looked for 23 characters from the end
DelimOffset == 23

\* app.py:266  range(0, len(track_ids), 50): ids per metadata call
BatchSize == 50

\* the largest catalogues of the batching runs fill this many batches, plus one id
MaxBatches == 2

(***************************************************************************)
(* Sequence helpers                                                        *)
(***************************************************************************)
Rep(c, n) == [i \in 1..n |-> c]

Range(s) == {s[i] : i \in 1..Len(s)}

Reverse(s) == [i \in 1..Len(s) |-> s[Len(s) + 1 - i]]

RECURSIVE Flatten(_)
Flatten(ss) == IF ss = <<>> THEN <<>> ELSE Head(ss) \o Flatten(Tail(ss))

\* position of the last occurrence of c in s, 0 when there is none (str.rfind + 1)
LastIndexOf(s, c) ==
    LET hits == {i \in 1..Len(s) : s[i] = c}
    IN  IF hits = {} THEN 0 ELSE CHOOSE i \in hits : \A j \in hits : j <= i

\* str.split(d) for a one-character delimiter d: the pieces between the delimiters
RECURSIVE Split(_, _)
Split(s, d) ==
    LET hits == {i \in 1..Len(s) : s[i] = d}
    IN  IF hits = {} THEN <<s>>
        ELSE LET i == CHOOSE k \in hits : \A j \in hits : k <= j
             IN  <<SubSeq(s, 1, i - 1)>> \o Split(SubSeq(s, i + 1, Len(s)), d)

(***************************************************************************)
(* References given by the user                                            *)
(***************************************************************************)
KTrack == <<"t", "r", "a", "c", "k">>
KEpisode == <<"e", "p", "i", "s", "o", "d", "e">>
KAlbum == <<"a", "l", "b", "u", "m">>
KArtist == <<"a", "r", "t", "i", "s", "t">>
KPlaylist == <<"p", "l", "a", "y", "l", "i", "s", "t">>
KShow == <<"s", "h", "o", "w">>
KMovie == <<"m", "o", "v", "i", "e">>

\* "s:track:AAAAAAAAAAAAAAAAAAAAAA"
LTrackA == <<"s", ":">> \o KTrack \o <<":">> \o Rep("A", 22)
\* "h/playlist/PPPPPPPPPPPPPPPPPPPPPP?s"
LPlaylistP == <<"h", "/">> \o KPlaylist \o <<"/">> \o Rep("P", 22) \o <<"?", "s">>
\* "s:episode:EEEEEEEEEEEEEEEEEEEEEE"
LEpisodeE == <<"s", ":">> \o KEpisode \o <<":">> \o Rep("E", 22)
\* "track/A": two segments, shorter than 23 characters
LShort == KTrack \o <<"/", "A">>
\* "s:movie:AAAAAAAAAAAAAAAAAAAAAA": a kind that is not recognised
LBadKind == <<"s", ":">> \o KMovie \o <<":">> \o Rep("A", 22)
\* "aaaaaaaaaaaaaaaaaaaaaaaaa": one segment, 25 characters
LNoSeg == Rep("a", 25)
\* "s:album:NNNNNNNNNNNNNNNNNNNNNN"
LAlbumN == <<"s", ":">> \o KAlbum \o <<":">> \o Rep("N", 22)
\* "s:show:SSSSSSSSSSSSSSSSSSSSSS"
LShowS == <<"s", ":">> \o KShow \o <<":">> \o Rep("S", 22)

GoodRefs == {LTrackA, LPlaylistP, LEpisodeE, LAlbumN}
BadRefs == {LShort, LBadKind, LNoSeg}
Refs == GoodRefs \cup BadRefs

RefLists == UNION {[1..n -> Refs] : n \in 0..MaxLinks}

(***************************************************************************)
(* App.parse, one reference                                                *)
(***************************************************************************)
\* link.rsplit("?", 1)[0]
StripQuery(link) ==
    LET q == LastIndexOf(link, "?")
    IN  IF q = 0 THEN link ELSE SubSeq(link, 1, q - 1)

\* the keys of collection_types
CollectionTypes == {KAlbum, KArtist, KShow, KTrack, KEpisode, KPlaylist}

\* the try block of lines 221-226: IndexError becomes ParseError
ParseSplit(link) ==
    LET l == StripQuery(link)
    IN  IF Len(l) < DelimOffset
        THEN [err |-> "ParseError", id_type |-> <<>>, id |-> <<>>]
        ELSE LET split == Split(l, l[Len(l) - DelimOffset + 1])
             IN  IF Len(split) < 2
                 THEN [err |-> "ParseError", id_type |-> <<>>, id |-> <<>>]
                 ELSE [err |-> "none",
                       id_type |-> split[Len(split) - 1],
                       id |-> split[Len(split)]]

\* collection_types[id_type]: a kind that is no key raises KeyError, which the
\* "except ValueError" of line 240 does not catch
LookupError(id_type) == IF id_type \in CollectionTypes THEN "none" ELSE "KeyError"

ParseOne(link) ==
    LET s == ParseSplit(link)
    IN  IF s.err # "none" THEN s
        ELSE [s EXCEPT !.err = LookupError(s.id_type)]

(***************************************************************************)
(* Playables and what the remote knows of them                             *)
(***************************************************************************)
\* "{" + meta.name + "}"
Placeholder(name) ==
    CASE name = "title" -> "{title}"
      [] name = "artists" -> "{artists}"
      [] name = "playlist" -> "{playlist}"
      [] name = "playlist_number" -> "{playlist_number}"
      [] name = "album" -> "{album}"
      [] OTHER -> "{?}"

TmplTrack == <<"{artists}", "-", "{title}">>
TmplPlaylist == <<"{playlist}", "/", "{playlist_number}", ".", " ", "{title}">>
TmplEpisode == <<"{title}">>
TmplAlbum == <<"{album}", "/", "{title}">>

Library == <<"L">>

MetaEntry(n, v) == [name |-> n, string |-> v]

Playable(i, t, tmpl, meta) ==
    [id |-> i, type |-> t, output_template |-> tmpl, library |-> Library,
     metadata |-> meta]

PlaylistMeta(n) == <<MetaEntry("playlist", <<"Q">>), MetaEntry("playlist_number", <<n>>)>>

\* what the remote knows of an id: display name and contributor names
RemoteName(i) ==
    CASE i = "A" -> <<"T">>
      [] i = "B" -> <<"U">>
      [] OTHER -> <<"M", ".", "B">>

RemoteArtists(i) ==
    CASE i = "A" -> <<<<"X">>, <<"Y">>>>
      [] i = "B" -> <<<<"X", "/", "Z">>>>
      [] OTHER -> <<>>

\* one entry of result["tracks"] / result["episodes"]
RemoteInfo(i) ==
    [present |-> TRUE, id |-> i, name |-> RemoteName(i), artists |-> RemoteArtists(i)]

\* the None the API returns for an id it has nothing for
NullInfo == [present |-> FALSE, id |-> "", name |-> <<>>, artists |-> <<>>]

(***************************************************************************)
(* Rendering the expected path (download_all, lines 306-339)               *)
(***************************************************************************)
\* zotify.utils.fix_filename: path separators and reserved characters are replaced
fix_filename(v) == [k \in 1..Len(v) |-> IF v[k] \in {"/", "\\"} THEN "_" ELSE v[k]]

\* " - ".join(names)
RECURSIVE JoinArtists(_)
JoinArtists(names) ==
    IF names = <<>> THEN <<>>
    ELSE IF Len(names) = 1 THEN names[1]
    ELSE names[1] \o <<" ", "-", " ">> \o JoinArtists(Tail(names))

\* str.replace(placeholder, value) on a template
RECURSIVE Replace(_, _, _)
Replace(tmpl, ph, value) ==
    IF tmpl = <<>> THEN <<>>
    ELSE (IF Head(tmpl) = ph THEN value ELSE <<Head(tmpl)>>)
         \o Replace(Tail(tmpl), ph, value)

\* the loop "for meta in playable.metadata": every entry with a string is substituted
RECURSIVE ReplaceMeta(_, _)
ReplaceMeta(tmpl, metadata) ==
    IF metadata = <<>> THEN tmpl
    ELSE ReplaceMeta(Replace(tmpl, Placeholder(Head(metadata).name),
                             fix_filename(Head(metadata).string)),
                     Tail(metadata))

Home == <<"~", "h">>

\* Path.expanduser: only a leading "~" is expanded
expanduser(path) ==
    IF path # <<>> /\ path[1] = "~" THEN Home \o Tail(path) ELSE path

\* library.joinpath(output_template)
joinpath(library, rel) == library \o <<"/">> \o rel

\* lines 311-320 (track) and 331-339 (episode)
ExpectedPath(playable, info) ==
    LET t0 == ReplaceMeta(playable.output_template, playable.metadata)
        t1 == IF playable.type = "track"
              THEN Replace(t0, "{artists}", fix_filename(JoinArtists(info.artists)))
              ELSE t0
        t2 == Replace(t1, "{title}", fix_filename(info.name))
    IN  expanduser(joinpath(playable.library, t2))

\* line 349
common_extensions == <<".wav", ".mp3", ".ogg", ".flac", ".m4a", ".wv">>

\* PurePath.name, PurePath.suffix, PurePath.with_suffix: the suffix is what follows
\* the last "." of the name, unless that "." is the name's first or last character
PathName(path) == SubSeq(path, LastIndexOf(path, "/") + 1, Len(path))

PathStem(path) ==
    LET name == PathName(path)
        i == LastIndexOf(name, ".")
    IN  IF 1 < i /\ i < Len(name) THEN SubSeq(name, 1, i - 1) ELSE name

with_suffix(path, ext) ==
    SubSeq(path, 1, LastIndexOf(path, "/")) \o PathStem(path) \o <<ext>>

\* the paths probed by lines 350-351
ProbedPaths(expected) ==
    {with_suffix(expected, common_extensions[k]) : k \in 1..Len(common_extensions)}

(***************************************************************************)
(* The environment of a run: the remote, the disk and the configuration    *)
(***************************************************************************)
\* "L/X - Y-T.mp3": track A as the single-track template names it
FileA == <<"L", "/", "X", " ", "-", " ", "Y", "-", "T", ".mp3">>
\* "L/M.B.ogg": episode E as the episode template names it
FileE == <<"L", "/", "M", ".", "B", ".ogg">>

\* album_size, show_size: how many tracks / episodes the remote lists for the album
\* and the show
Envs ==
    { [unavailable |-> {}, fs0 |-> {}, lyrics_file |-> FALSE, premium |-> FALSE,
       transcode |-> FALSE, save_metadata |-> FALSE, replace_existing |-> FALSE,
       relinked |-> {}, album_size |-> 1, show_size |-> 1],
      [unavailable |-> {"B"}, fs0 |-> {FileA, FileE}, lyrics_file |-> TRUE,
       premium |-> TRUE, transcode |-> TRUE, save_metadata |-> TRUE,
       replace_existing |-> FALSE, relinked |-> {}, album_size |-> 1, show_size |-> 1],
      [unavailable |-> {}, fs0 |-> {FileE}, lyrics_file |-> TRUE, premium |-> FALSE,
       transcode |-> FALSE, save_metadata |-> TRUE, replace_existing |-> FALSE,
       relinked |-> {}, album_size |-> 1, show_size |-> 1],
      [unavailable |-> {}, fs0 |-> {FileE}, lyrics_file |-> FALSE, premium |-> TRUE,
       transcode |-> FALSE, save_metadata |-> FALSE, replace_existing |-> TRUE,
       relinked |-> {"B"}, album_size |-> 1, show_size |-> 1] }

\* the sizes at the edges of the batching: nothing, one id, a full batch, one id
\* more, the most full batches, one id more
Counts == {0, 1, BatchSize, BatchSize + 1, MaxBatches * BatchSize,
           MaxBatches * BatchSize + 1}

\* the ids the remote answers with None in the batching runs: the first id of the
\* first and of the second track batch, the first episode
BatchUnavailable == {ToString(1), ToString(BatchSize + 1), ToString(0 - 1)}

\* catalogues with an album and a show of many ids
BatchEnvs ==
    { [unavailable |-> BatchUnavailable, fs0 |-> {}, lyrics_file |-> FALSE,
       premium |-> FALSE, transcode |-> FALSE, save_metadata |-> FALSE,
       replace_existing |-> FALSE, relinked |-> {}, album_size |-> a,
       show_size |-> s] :
      a \in Counts, s \in Counts }

(***************************************************************************)
(* State                                                                   *)
(***************************************************************************)
VARIABLES
    links,             \* the references selected (get_selection's result)
    reverse,           \* App.__reverse
    env,               \* the remote's catalogue, the configuration
    pc,                \* where the run is
    li,                \* parse: index of the next reference
    collections,       \* parse: the playables of each collection built so far
    si,                \* download_all: index of the next playable of the scan
    track_ids, episode_ids, map_keys, playable_map,
    bi,                \* offset of the next metadata batch
    track_metadata, episode_metadata,
    api_calls,         \* metadata calls issued, per kind
    count, total,
    items,             \* items_to_process (the ids, in processing order)
    idx,               \* position in items of the item being processed
    playable,          \* playables[0] of the current item
    track,             \* what get_track / get_episode returned
    output,            \* what create_output returned
    fs,                \* the files on disk
    partial,           \* the files on disk whose write was abandoned part way
    log,               \* the lines given to Logger.log
    fetched,           \* ids passed to get_track / get_episode, in call order
    started,           \* ids whose loop iteration began, in order
    raised,            \* the exception that left App.__init__, "none" otherwise
    exit_status,       \* the process's exit status, -1 while it runs
    auth_path,         \* the branch of App.__init__ that creates the session
    server_thread,     \* OAuth.__server_thread: unset, or where the thread is
    code_verifier,     \* whether OAuth.__code_verifier is set
    token,             \* OAuth.__token: unset, or the token stored
    shutdown_request,  \* the server's shutdown flag
    shutdown_threads,  \* the threads started on server.shutdown, by position
    requests,          \* the callback requests waiting at the server's socket
    handled,           \* what became of each request do_GET handled, in order
    returned_token     \* what await_token returned, "none" before

vars == <<links, reverse, env, pc, li, collections, si, track_ids, episode_ids,
          map_keys, playable_map, bi, track_metadata, episode_metadata, api_calls,
          count, total, items, idx, playable, track, output, fs, partial, log,
          fetched, started, raised, exit_status, auth_path, server_thread,
          code_verifier, token, shutdown_request, shutdown_threads, requests, handled,
          returned_token>>

parseVars == <<li, collections>>
scanVars == <<si, track_ids, episode_ids, map_keys, playable_map>>
batchVars == <<bi, track_metadata, episode_metadata, api_calls>>
loopVars == <<count, total, items, idx, playable, started>>
itemVars == <<track, output>>
inputVars == <<links, reverse, env>>
oauthVars == <<auth_path, server_thread, code_verifier, token, shutdown_request,
               shutdown_threads, requests, handled, returned_token>>

NoPlayable == [id |-> "", type |-> "none", output_template |-> <<>>,
               library |-> <<>>, metadata |-> <<>>]
NoTrack == [id |-> "", name |-> <<>>, metadata |-> <<>>]

Line(chan, msg, id, n) == [chan |-> chan, msg |-> msg, id |-> id, n |-> n]

\* an OAuth object as OAuth.__init__ leaves it: the class body only annotates
\* __code_verifier, __server_thread and __token, so none of them is set
NewOAuth ==
    /\ server_thread = "unset"
    /\ code_verifier = FALSE
    /\ token = "unset"
    /\ shutdown_request = FALSE
    /\ shutdown_threads = [new |-> 0, waiting |-> 0, returned |-> 0]
    /\ requests = <<>>
    /\ handled = <<>>
    /\ returned_token = "none"

\* the variables of download_all and of its log before the first step
Fresh ==
    /\ li = 1
    /\ collections = <<>>
    /\ si = 1
    /\ track_ids = <<>>
    /\ episode_ids = <<>>
    /\ map_keys = <<>>
    /\ playable_map = <<>>
    /\ bi = 0
    /\ track_metadata = <<>>
    /\ episode_metadata = <<>>
    /\ api_calls = [tracks |-> 0, episodes |-> 0]
    /\ count = 0
    /\ total = 0
    /\ items = <<>>
    /\ idx = 1
    /\ playable = NoPlayable
    /\ track = NoTrack
    /\ output = <<>>
    /\ fs = env.fs0
    /\ partial = {}
    /\ log = <<>>
    /\ fetched = <<>>
    /\ started = <<>>
    /\ raised = "none"
    /\ exit_status = -1

\* the state of a process that has just built its session from the credentials
\* file (app.py lines 158-162): no OAuth object is involved
Start ==
    /\ pc = "select"
    /\ Fresh
    /\ auth_path = "file"
    /\ NewOAuth

Init ==
    /\ links \in RefLists
    /\ reverse \in BOOLEAN
    /\ env \in Envs
    /\ Start

(***************************************************************************)
(* The collections a reference resolves to                                 *)
(***************************************************************************)
\* the tracks of an album of n tracks ("1", "2", ...): no collection-level field
AlbumTracks(n) == [k \in 1..n |-> Playable(ToString(k), "track", TmplAlbum, <<>>)]

\* the episodes of a show of n episodes ("-1", "-2", ...)
ShowEpisodes(n) ==
    [k \in 1..n |-> Playable(ToString(0 - k), "episode", TmplEpisode, <<>>)]

\* collection_types[id_type](_id, api, config).playables: a track or an episode is
\* itself one playable, a playlist one playable per entry with the playlist's
\* fields, an album or a show one playable per track or episode the remote lists
Resolve(id_type, id) ==
    CASE id_type = KTrack -> <<Playable(id[1], "track", TmplTrack, <<>>)>>
      [] id_type = KEpisode -> <<Playable(id[1], "episode", TmplEpisode, <<>>)>>
      [] id_type = KPlaylist ->
            <<Playable("A", "track", TmplPlaylist, PlaylistMeta("1")),
              Playable("B", "track", TmplPlaylist, PlaylistMeta("2")),
              Playable("A", "track", TmplPlaylist, PlaylistMeta("3"))>>
      [] id_type = KAlbum -> AlbumTracks(env.album_size)
      [] id_type = KShow -> ShowEpisodes(env.show_size)
      [] OTHER -> <<>>

(***************************************************************************)
(* Leaving the program                                                     *)
(***************************************************************************)
\* exit(code): SystemExit is no Exception, main's handlers let it through
Exit(code) ==
    /\ pc' = "done"
    /\ exit_status' = code
    /\ raised' = "none"

\* __main__.main lines 135-144: an exception leaving App(args) ends the process
\* with status 1 (printed by main, or as a traceback under --debug)
MainExceptionStatus == 1

Raise(exc) ==
    /\ pc' = "done"
    /\ exit_status' = MainExceptionStatus
    /\ raised' = exc

\* write_audio_stream writes the stream beside the output path
StreamFile(out) == out \o <<".ogg">>

\* InterruptStatus with a fault: the interrupt is handled like any exception
InterruptStatus_AsFailure == MainExceptionStatus

\* __main__.main line 146 and App.get_selection line 211: exit(130)
InterruptStatus == 130

\* KeyboardInterrupt raised in App(args) outside get_selection: no handler of
\* app.py catches it (they name Exception or narrower classes), main does and exits;
\* under --debug nothing catches it and the interpreter ends the process by SIGINT,
\* which is status 128 + 2 as well.  Raised while write_audio_stream is copying,
\* it leaves on disk what was written so far.
Interrupt ==
    /\ pc \notin {"select", "done"}
    /\ pc' = "done"
    /\ exit_status' = InterruptStatus
    /\ raised' = "KeyboardInterrupt"
    /\ \/ UNCHANGED <<fs, partial>>
       \/ /\ pc = "write"
          /\ fs' = fs \cup {StreamFile(output)}
          /\ partial' = partial \cup {StreamFile(output)}
    /\ UNCHANGED <<inputVars, oauthVars, parseVars, scanVars, batchVars, loopVars, itemVars,
                   log, fetched>>

(***************************************************************************)
(* App.__init__ lines 176-187 and App.parse                                *)
(***************************************************************************)
\* get_selection: args.urls, or "there is nothing to do" and exit(0) when empty
GetSelection ==
    /\ pc = "select"
    /\ IF links = <<>>
       THEN /\ log' = Append(log, Line("warnings", "nothing_to_do", "", 0))
            /\ Exit(0)
       ELSE /\ pc' = "parse"
            /\ UNCHANGED <<log, exit_status, raised>>
    /\ UNCHANGED <<inputVars, oauthVars, parseVars, scanVars, batchVars, loopVars, itemVars,
                   fs, partial, fetched>>

\* get_selection lines 209-211: KeyboardInterrupt while the selection is made
InterruptSelection ==
    /\ pc = "select"
    /\ log' = Append(log, Line("warnings", "nothing_to_do", "", 0))
    /\ Exit(InterruptStatus)
    /\ UNCHANGED <<inputVars, oauthVars, parseVars, scanVars, batchVars, loopVars, itemVars,
                   fs, partial, fetched>>

\* ParseErrorStatus with a fault: the status of a run with nothing to report
ParseErrorStatus_AsSuccess == MainExceptionStatus - 1

\* lines 180-182: except ParseError: log, exit(1)
ParseErrorStatus == 1

\* one iteration of parse's loop that appends a collection
ParseOk ==
    /\ pc = "parse" /\ li <= Len(links)
    /\ LET r == ParseOne(links[li])
       IN  /\ r.err = "none"
           /\ collections' = Append(collections, Resolve(r.id_type, r.id))
    /\ li' = li + 1
    /\ UNCHANGED <<inputVars, oauthVars, pc, scanVars, batchVars, loopVars, itemVars,
                   fs, partial, log,
                   fetched, raised, exit_status>>

\* ParseFail with a fault: the rejected reference is logged and skipped
ParseFail_SkipsReference ==
    /\ pc = "parse" /\ li <= Len(links)
    /\ ParseOne(links[li]).err \in {"ParseError", "none"}
    /\ log' = Append(log, Line("errors", "parse_error", "", li))
    /\ li' = li + 1
    /\ UNCHANGED <<inputVars, oauthVars, pc, collections, scanVars, batchVars, loopVars,
                   itemVars, fs, partial, fetched, raised, exit_status>>

\* the reference is too short (IndexError), or the collection's constructor raised
\* ValueError: ParseError, caught by App.__init__
ParseFail ==
    /\ pc = "parse" /\ li <= Len(links)
    /\ ParseOne(links[li]).err \in {"ParseError", "none"}
    /\ log' = Append(log, Line("errors", "parse_error", "", li))
    /\ Exit(ParseErrorStatus)
    /\ UNCHANGED <<inputVars, oauthVars, parseVars, scanVars, batchVars, loopVars, itemVars,
                   fs, partial, fetched>>

\* any other exception of parse (the KeyError of the lookup, a failed listing call
\* of the collection's constructor) leaves App.__init__
ParseCrash ==
    /\ pc = "parse" /\ li <= Len(links)
    /\ LET r == ParseOne(links[li])
       IN  /\ r.err # "ParseError"
           /\ Raise(IF r.err = "KeyError" THEN "KeyError" ELSE "HTTPError")
    /\ UNCHANGED <<inputVars, oauthVars, parseVars, scanVars, batchVars, loopVars, itemVars,
                   fs, partial, log, fetched>>

\* lines 183-187
NothingToDoStatus == 0

ParseDone ==
    /\ pc = "parse" /\ li > Len(links)
    /\ IF Len(collections) > 0
       THEN /\ pc' = "scan"
            /\ UNCHANGED <<log, exit_status, raised>>
       ELSE /\ log' = Append(log, Line("warnings", "nothing_to_do", "", 0))
            /\ Exit(NothingToDoStatus)
    /\ UNCHANGED <<inputVars, oauthVars, parseVars, scanVars, batchVars, loopVars, itemVars,
                   fs, partial, fetched>>

(***************************************************************************)
(* download_all, step 1: the scan of the collections (lines 247-262)       *)
(***************************************************************************)
\* ScanOne with a fault: a repeated id is dropped instead of appended to its list
ScanOne_DropRepeat(m, p) ==
    IF p.type \notin {"track", "episode"} THEN m
    ELSE IF p.id \notin DOMAIN m.playable_map
    THEN [track_ids |-> IF p.type = "track" THEN Append(m.track_ids, p.id)
                        ELSE m.track_ids,
          episode_ids |-> IF p.type = "episode" THEN Append(m.episode_ids, p.id)
                          ELSE m.episode_ids,
          map_keys |-> Append(m.map_keys, p.id),
          playable_map |-> (p.id :> <<p>>) @@ m.playable_map]
    ELSE m

\* ScanOne with a fault: every occurrence of an id becomes an item of its own
ScanOne_KeyPerOccurrence(m, p) ==
    IF p.type \notin {"track", "episode"} THEN m
    ELSE IF p.id \notin DOMAIN m.playable_map
    THEN [track_ids |-> IF p.type = "track" THEN Append(m.track_ids, p.id)
                        ELSE m.track_ids,
          episode_ids |-> IF p.type = "episode" THEN Append(m.episode_ids, p.id)
                          ELSE m.episode_ids,
          map_keys |-> Append(m.map_keys, p.id),
          playable_map |-> (p.id :> <<p>>) @@ m.playable_map]
    ELSE [m EXCEPT !.playable_map[p.id] = Append(@, p),
                   !.map_keys = Append(@, p.id)]

\* the body of the inner loop for one playable p, on m = the four collections
\* the scan builds (a dict keeps its keys in insertion order: map_keys)
ScanOne(m, p) ==
    IF p.type \notin {"track", "episode"} THEN m
    ELSE IF p.id \notin DOMAIN m.playable_map
    THEN [track_ids |-> IF p.type = "track" THEN Append(m.track_ids, p.id)
                        ELSE m.track_ids,
          episode_ids |-> IF p.type = "episode" THEN Append(m.episode_ids, p.id)
                          ELSE m.episode_ids,
          map_keys |-> Append(m.map_keys, p.id),
          playable_map |-> (p.id :> <<p>>) @@ m.playable_map]
    ELSE [m EXCEPT !.playable_map[p.id] = Append(@, p)]

ScanStep ==
    /\ pc = "scan" /\ si <= Len(Flatten(collections))
    /\ LET m == ScanOne([track_ids |-> track_ids, episode_ids |-> episode_ids,
                         map_keys |-> map_keys, playable_map |-> playable_map],
                        Flatten(collections)[si])
       IN  /\ track_ids' = m.track_ids
           /\ episode_ids' = m.episode_ids
           /\ map_keys' = m.map_keys
           /\ playable_map' = m.playable_map
    /\ si' = si + 1
    /\ UNCHANGED <<inputVars, oauthVars, pc, parseVars, batchVars, loopVars, itemVars,
                   fs, partial, log,
                   fetched, raised, exit_status>>

ScanDone ==
    /\ pc = "scan" /\ si > Len(Flatten(collections))
    /\ pc' = "batch_tracks"
    /\ UNCHANGED <<inputVars, oauthVars, parseVars, scanVars, batchVars, loopVars, itemVars,
                   fs, partial, log, fetched, raised, exit_status>>

(***************************************************************************)
(* download_all, step 1: batched metadata (lines 265-280)                  *)
(***************************************************************************)
Min(a, b) == IF a < b THEN a ELSE b

\* NextOffset with a fault: the offset advances by one id
NextOffset_ByOne(i) == i + 1

\* the step of range(0, len(ids), 50)
NextOffset(i) == i + BatchSize

\* ids[i:i+50]
Batch(ids, i) == SubSeq(ids, i + 1, Min(i + BatchSize, Len(ids)))

\* the id of the record the remote substitutes for a relinked id
RelinkedId(i) == i \o "2"

\* result["tracks"] / result["episodes"]: one entry per requested id, None for an
\* id the remote has nothing for; the record of a relinked id carries its own id
\* in the "id" field that lines 272 and 280 read
Response(batch) ==
    [k \in 1..Len(batch) |->
        IF batch[k] \in env.unavailable THEN NullInfo
        ELSE IF batch[k] \in env.relinked
        THEN [RemoteInfo(batch[k]) EXCEPT !.id = RelinkedId(batch[k])]
        ELSE RemoteInfo(batch[k])]

\* the entry the loop stores last under id x: the last entry of the response that
\* is not None and carries that id
LastEntry(result, x) ==
    result[CHOOSE k \in 1..Len(result) :
              /\ result[k].present /\ result[k].id = x
              /\ \A j \in (k + 1)..Len(result) :
                    ~(result[j].present /\ result[j].id = x)]

\* the mapping after the entries of the response at the positions ks were stored
Stored(metadata, result, ks) ==
    LET ids == {result[k].id : k \in {j \in ks : result[j].present}}
    IN  [x \in DOMAIN metadata \cup ids |->
            IF x \in ids THEN LastEntry(result, x) ELSE metadata[x]]

\* MergeBatch with a fault: the first None ends the merge of the batch
MergeBatch_StopAtNull(metadata, result) ==
    Stored(metadata, result,
           {k \in 1..Len(result) : \A j \in 1..k : result[j].present})

\* for info in result[...]: if info: metadata[info["id"]] = info
MergeBatch(metadata, result) == Stored(metadata, result, 1..Len(result))

BatchTracksOk ==
    /\ pc = "batch_tracks" /\ bi < Len(track_ids)
    /\ track_metadata' = MergeBatch(track_metadata, Response(Batch(track_ids, bi)))
    /\ api_calls' = [api_calls EXCEPT !.tracks = @ + 1]
    /\ bi' = NextOffset(bi)
    /\ UNCHANGED <<inputVars, oauthVars, pc, parseVars, scanVars, episode_metadata,
                   loopVars,
                   itemVars, fs, partial, log, fetched, raised, exit_status>>

BatchEpisodesOk ==
    /\ pc = "batch_episodes" /\ bi < Len(episode_ids)
    /\ episode_metadata' = MergeBatch(episode_metadata,
                                      Response(Batch(episode_ids, bi)))
    /\ api_calls' = [api_calls EXCEPT !.episodes = @ + 1]
    /\ bi' = NextOffset(bi)
    /\ UNCHANGED <<inputVars, oauthVars, pc, parseVars, scanVars, track_metadata, loopVars,
                   itemVars, fs, partial, log, fetched, raised, exit_status>>

\* ApiClient.invoke_url raises HTTPError when the response carries an "error"
\* (__init__.py lines 259-264); download_all does not catch it
BatchError ==
    /\ \/ pc = "batch_tracks" /\ bi < Len(track_ids)
          /\ api_calls' = [api_calls EXCEPT !.tracks = @ + 1]
       \/ pc = "batch_episodes" /\ bi < Len(episode_ids)
          /\ api_calls' = [api_calls EXCEPT !.episodes = @ + 1]
    /\ Raise("HTTPError")
    /\ UNCHANGED <<inputVars, oauthVars, parseVars, scanVars, bi, track_metadata,
                   episode_metadata, loopVars, itemVars, fs, partial, log, fetched>>

BatchTracksDone ==
    /\ pc = "batch_tracks" /\ bi >= Len(track_ids)
    /\ pc' = "batch_episodes"
    /\ bi' = 0
    /\ UNCHANGED <<inputVars, oauthVars, parseVars, scanVars, track_metadata,
                   episode_metadata,
                   api_calls, loopVars, itemVars, fs, partial, log, fetched, raised,
                   exit_status>>

(***************************************************************************)
(* download_all, step 2: the loop over the unique items (lines 282-297)    *)
(***************************************************************************)
\* ItemsToProcess with a fault: the flag is ignored
ItemsToProcess_Forward(keys, rev) == keys

\* list(playable_map.items()), reversed under --reverse (lines 290-292)
ItemsToProcess(keys, rev) == IF rev THEN Reverse(keys) ELSE keys

\* Canonical with a fault: playables[-1]
Canonical_Last(playables) == playables[Len(playables)]

\* playables[0] (line 297)
Canonical(playables) == playables[1]

RECURSIVE CountAll(_, _)
CountAll(map, keys) ==
    IF keys = {} THEN 0
    ELSE LET k == CHOOSE x \in keys : TRUE
         IN  Len(map[k]) + CountAll(map, keys \ {k})

\* TotalOf with a fault: every occurrence is counted
TotalOf_Occurrences(map) == CountAll(map, DOMAIN map)

\* line 286: total = len(playable_map)
TotalOf(map) == Cardinality(DOMAIN map)

\* lines 282-293, after the last episode batch
BatchEpisodesDone ==
    /\ pc = "batch_episodes" /\ bi >= Len(episode_ids)
    /\ log' = log \o <<Line("warnings", "found_unique", "", Len(map_keys))>>
                  \o (IF reverse THEN <<Line("warnings", "reverse_order", "", 0)>>
                      ELSE <<>>)
    /\ count' = 0
    /\ total' = TotalOf(playable_map)
    /\ items' = ItemsToProcess(map_keys, reverse)
    /\ idx' = 1
    /\ pc' = "loop"
    /\ UNCHANGED <<inputVars, oauthVars, parseVars, scanVars, batchVars, playable, started,
                   itemVars, fs, partial, fetched, raised, exit_status>>

\* lines 295-297: the next item begins
NextItem ==
    /\ pc = "loop" /\ idx <= Len(items)
    /\ count' = count + 1
    /\ playable' = Canonical(playable_map[items[idx]])
    /\ started' = Append(started, items[idx])
    /\ pc' = "precheck"
    /\ UNCHANGED <<inputVars, oauthVars, parseVars, scanVars, batchVars, total, items, idx,
                   itemVars, fs, partial, log, fetched, raised, exit_status>>

\* FinishStatus with a fault: the status of a failed run
FinishStatus_AsFailure == MainExceptionStatus

\* App.__init__ line 187: exit(0) once download_all has returned
FinishStatus == 0

Finish ==
    /\ pc = "loop" /\ idx > Len(items)
    /\ Exit(FinishStatus)
    /\ UNCHANGED <<inputVars, oauthVars, parseVars, scanVars, batchVars, loopVars, itemVars,
                   fs, partial, log, fetched>>

\* "continue": the item is over, the loop goes on with the next one
Continue ==
    /\ idx' = idx + 1
    /\ pc' = "loop"

(***************************************************************************)
(* The existence precheck (lines 299-369)                                  *)
(***************************************************************************)
MetadataOf(p) == IF p.type = "track" THEN track_metadata ELSE episode_metadata

\* HasMetadata with a fault: the membership test is left out
HasMetadata_Always(item_id, p) == TRUE

\* lines 302 and 323: item_id not in track_metadata / episode_metadata
HasMetadata(item_id, p) == item_id \in DOMAIN MetadataOf(p)

\* track_metadata[item_id] / episode_metadata[item_id] (lines 306 and 327): the
\* subscript raises KeyError for a missing key, inside the try of line 300
LookupOk(item_id, p) == item_id \in DOMAIN MetadataOf(p)

InfoOf(item_id, p) ==
    IF item_id \in DOMAIN MetadataOf(p) THEN MetadataOf(p)[item_id] ELSE NullInfo

\* lines 348-359: some probed path exists
FileExists(expected, files) == ProbedPaths(expected) \cap files # {}

\* lines 302-304 and 323-325
PrecheckUnavailable ==
    /\ pc = "precheck"
    /\ ~HasMetadata(items[idx], playable)
    /\ log' = Append(log, Line("skips", "not_available", items[idx], 0))
    /\ Continue
    /\ UNCHANGED <<inputVars, oauthVars, parseVars, scanVars, batchVars, count, total,
                   items,
                   playable, started, itemVars, fs, partial, fetched, raised, exit_status>>

\* PrecheckError with a fault: the handler of line 364 is missing
PrecheckError_Raises ==
    /\ pc = "precheck"
    /\ HasMetadata(items[idx], playable)
    /\ Raise("KeyError")
    /\ UNCHANGED <<inputVars, oauthVars, parseVars, scanVars, batchVars, loopVars, itemVars,
                   fs, partial, log, fetched>>

\* lines 364-369: anything raised while the path is built or probed
PrecheckError ==
    /\ pc = "precheck"
    /\ HasMetadata(items[idx], playable)
    /\ log' = Append(log, Line("skips", "precheck_error", items[idx], 0))
    /\ Continue
    /\ UNCHANGED <<inputVars, oauthVars, parseVars, scanVars, batchVars, count, total,
                   items,
                   playable, started, itemVars, fs, partial, fetched, raised, exit_status>>

\* dup_msg with a fault: the annotation is always there
dup_msg_Always(dup_count) == dup_count

\* line 353: the count the message is annotated with, 0 for no annotation
dup_msg(dup_count) == IF dup_count > 1 THEN dup_count ELSE 0

\* lines 351-362: a probed path exists; the message is annotated with
\* len(playables) when that is more than one
PrecheckExists ==
    /\ pc = "precheck"
    /\ HasMetadata(items[idx], playable)
    /\ LookupOk(items[idx], playable)
    /\ FileExists(ExpectedPath(playable, InfoOf(items[idx], playable)), fs)
    /\ log' = Append(log, Line("skips", "already_exists", items[idx],
                               dup_msg(Len(playable_map[items[idx]]))))
    /\ Continue
    /\ UNCHANGED <<inputVars, oauthVars, parseVars, scanVars, batchVars, count, total,
                   items,
                   playable, started, itemVars, fs, partial, fetched, raised, exit_status>>

PrecheckPass ==
    /\ pc = "precheck"
    /\ HasMetadata(items[idx], playable)
    /\ LookupOk(items[idx], playable)
    /\ ~FileExists(ExpectedPath(playable, InfoOf(items[idx], playable)), fs)
    /\ pc' = "fetch"
    /\ UNCHANGED <<inputVars, oauthVars, parseVars, scanVars, batchVars, loopVars, itemVars,
                   fs, partial, log, fetched, raised, exit_status>>

(***************************************************************************)
(* FetchStream (lines 371-386)                                             *)
(***************************************************************************)
\* the Track / Episode built from the loaded stream: its name and its own metadata
LoadedTrack(i) ==
    [id |-> i, name |-> RemoteName(i),
     metadata |-> <<MetaEntry("title", RemoteName(i)),
                    MetaEntry("artists", JoinArtists(RemoteArtists(i))),
                    MetaEntry("album", <<"R">>)>>]

\* Session.get_track / get_episode returned
FetchOk ==
    /\ pc = "fetch"
    /\ fetched' = Append(fetched, playable.id)
    /\ track' = LoadedTrack(playable.id)
    /\ pc' = "create"
    /\ UNCHANGED <<inputVars, oauthVars, parseVars, scanVars, batchVars, loopVars,
                   output, fs, partial,
                   log, raised, exit_status>>

\* FetchRuntimeError with a fault: the "continue" of line 386 is missing
FetchRuntimeError_NoContinue ==
    /\ pc = "fetch"
    /\ fetched' = Append(fetched, playable.id)
    /\ \E cause \in {"unavailable", "audio_key"} :
          log' = Append(log, Line("skips", cause, items[idx], 0))
    /\ pc' = "create"
    /\ UNCHANGED <<inputVars, oauthVars, parseVars, scanVars, batchVars, loopVars, itemVars,
                   fs, partial, raised, exit_status>>

\* lines 381-386: a RuntimeError of the fetch, whatever its cause, is a skip
FetchRuntimeError ==
    /\ pc = "fetch"
    /\ fetched' = Append(fetched, playable.id)
    /\ \E cause \in {"unavailable", "audio_key"} :
          log' = Append(log, Line("skips", cause, items[idx], 0))
    /\ Continue
    /\ UNCHANGED <<inputVars, oauthVars, parseVars, scanVars, batchVars, count, total,
                   items,
                   playable, started, itemVars, fs, partial, raised, exit_status>>

\* an exception of the fetch that is no RuntimeError is not caught by line 381
FetchOtherError ==
    /\ pc = "fetch"
    /\ fetched' = Append(fetched, playable.id)
    /\ Raise("ConnectionError")
    /\ UNCHANGED <<inputVars, oauthVars, parseVars, scanVars, batchVars, loopVars, itemVars,
                   fs, partial, log>>

(***************************************************************************)
(* CreateOutput and WriteStream (lines 388-408)                            *)
(***************************************************************************)
\* Playable.create_output: the template rendered from the track's metadata
FinalPath(t, p) == expanduser(joinpath(p.library, ReplaceMeta(p.output_template, t.metadata)))

\* the extension of the finished file: that of the target audio format
OutputExt == IF env.transcode THEN ".mp3" ELSE ".ogg"

\* line 389: track.metadata.extend(playable.metadata)
Extended(t, p) == [t EXCEPT !.metadata = @ \o p.metadata]

\* create_output raises FileExistsError for an existing file unless replace is set
OutputExists(t, p) ==
    /\ ~env.replace_existing
    /\ (FinalPath(t, p) \o <<OutputExt>>) \in fs

CreateOk ==
    /\ pc = "create"
    /\ track' = Extended(track, playable)
    /\ ~OutputExists(track', playable)
    /\ output' = FinalPath(track', playable)
    /\ pc' = "write"
    /\ UNCHANGED <<inputVars, oauthVars, parseVars, scanVars, batchVars, loopVars, fs,
                   partial, log,
                   fetched, raised, exit_status>>

\* CreateExists with a fault: the skip is logged and the item goes on to the write
CreateExists_GoesOn ==
    /\ pc = "create"
    /\ track' = Extended(track, playable)
    /\ OutputExists(track', playable)
    /\ log' = Append(log, Line("skips", "output_exists", items[idx], 0))
    /\ output' = FinalPath(track', playable)
    /\ pc' = "write"
    /\ UNCHANGED <<inputVars, oauthVars, parseVars, scanVars, batchVars, loopVars, fs,
                   partial,
                   fetched, raised, exit_status>>

\* lines 396-401
CreateExists ==
    /\ pc = "create"
    /\ track' = Extended(track, playable)
    /\ OutputExists(track', playable)
    /\ log' = Append(log, Line("skips", "output_exists", items[idx], 0))
    /\ Continue
    /\ UNCHANGED <<inputVars, oauthVars, parseVars, scanVars, batchVars, count, total,
                   items,
                   playable, started, output, fs, partial, fetched, raised, exit_status>>

\* any other exception of create_output (the directory cannot be made)
CreateError ==
    /\ pc = "create"
    /\ track' = Extended(track, playable)
    /\ Raise("OSError")
    /\ UNCHANGED <<inputVars, oauthVars, parseVars, scanVars, batchVars, loopVars,
                   output, fs, partial,
                   log, fetched>>

\* lines 404-408
WriteOk ==
    /\ pc = "write"
    /\ fs' = fs \cup {StreamFile(output)}
    /\ partial' = partial \ {StreamFile(output)}
    /\ pc' = "lyrics"
    /\ UNCHANGED <<inputVars, oauthVars, parseVars, scanVars, batchVars, loopVars, itemVars,
                   log, fetched, raised, exit_status>>

\* the write fails part way: nothing around line 408 catches it, and what was
\* written so far stays on disk
WriteError ==
    /\ pc = "write"
    /\ fs' = fs \cup {StreamFile(output)}
    /\ partial' = partial \cup {StreamFile(output)}
    /\ Raise("OSError")
    /\ UNCHANGED <<inputVars, oauthVars, parseVars, scanVars, batchVars, loopVars, itemVars,
                   log, fetched>>

(***************************************************************************)
(* WriteLyrics, Transcode, WriteMetadataTags (lines 410-448)               *)
(***************************************************************************)
\* LyricsWanted with a fault: the kind of the item is not tested
LyricsWanted_AnyKind == env.lyrics_file

\* line 411
LyricsWanted == playable.type = "track" /\ env.lyrics_file

LyricsFile(out) == out \o <<".lrc">>

Downloaded == Line("downloads", "downloaded", items[idx], 0)

\* lines 411-423 when no lyrics are fetched: not wanted, or no premium account
LyricsSkipped ==
    /\ pc = "lyrics"
    /\ ~(LyricsWanted /\ env.premium)
    /\ log' = log \o (IF LyricsWanted
                      THEN <<Line("skips", "lyrics_not_premium", items[idx], 0)>>
                      ELSE <<>>)
                  \o <<Downloaded>>
    /\ pc' = "transcode"
    /\ UNCHANGED <<inputVars, oauthVars, parseVars, scanVars, batchVars, loopVars, itemVars,
                   fs, partial, fetched, raised, exit_status>>

LyricsOk ==
    /\ pc = "lyrics"
    /\ LyricsWanted /\ env.premium
    /\ fs' = fs \cup {LyricsFile(output)}
    /\ UNCHANGED partial
    /\ log' = Append(log, Downloaded)
    /\ pc' = "transcode"
    /\ UNCHANGED <<inputVars, oauthVars, parseVars, scanVars, batchVars, loopVars, itemVars,
                   fetched, raised, exit_status>>

\* lines 421-422: except FileNotFoundError
LyricsNotFound ==
    /\ pc = "lyrics"
    /\ LyricsWanted /\ env.premium
    /\ log' = log \o <<Line("skips", "lyrics_not_found", items[idx], 0), Downloaded>>
    /\ pc' = "transcode"
    /\ UNCHANGED <<inputVars, oauthVars, parseVars, scanVars, batchVars, loopVars, itemVars,
                   fs, partial, fetched, raised, exit_status>>

\* any other exception of track.lyrics().save(output)
LyricsError ==
    /\ pc = "lyrics"
    /\ LyricsWanted /\ env.premium
    /\ Raise("HTTPError")
    /\ UNCHANGED <<inputVars, oauthVars, parseVars, scanVars, batchVars, loopVars, itemVars,
                   fs, partial, log, fetched>>

\* lines 426-429
TranscodeWanted == env.transcode

TranscodeSkipped ==
    /\ pc = "transcode"
    /\ ~TranscodeWanted
    /\ pc' = "tags"
    /\ UNCHANGED <<inputVars, oauthVars, parseVars, scanVars, batchVars, loopVars, itemVars,
                   fs, partial, log, fetched, raised, exit_status>>

\* file.transcode(format, bitrate, True, ...): the converted file replaces the source
TranscodeOk ==
    /\ pc = "transcode"
    /\ TranscodeWanted
    /\ fs' = (fs \ {StreamFile(output)}) \cup {output \o <<OutputExt>>}
    /\ UNCHANGED partial
    /\ pc' = "tags"
    /\ UNCHANGED <<inputVars, oauthVars, parseVars, scanVars, batchVars, loopVars, itemVars,
                   log, fetched, raised, exit_status>>

\* TranscodeFailed with a fault: the source file is deleted although the conversion
\* failed
TranscodeFailed_RemovesFile ==
    /\ pc = "transcode"
    /\ TranscodeWanted
    /\ log' = Append(log, Line("errors", "transcoding_error", items[idx], 0))
    /\ fs' = fs \ {StreamFile(output)}
    /\ pc' = "tags"
    /\ UNCHANGED <<inputVars, oauthVars, parseVars, scanVars, batchVars, loopVars, itemVars,
                   partial, fetched, raised, exit_status>>

\* lines 439-440: except TranscodingError
TranscodeFailed ==
    /\ pc = "transcode"
    /\ TranscodeWanted
    /\ log' = Append(log, Line("errors", "transcoding_error", items[idx], 0))
    /\ pc' = "tags"
    /\ UNCHANGED <<inputVars, oauthVars, parseVars, scanVars, batchVars, loopVars, itemVars,
                   fs, partial, fetched, raised, exit_status>>

\* any other exception of file.transcode (the converter cannot be started)
TranscodeError ==
    /\ pc = "transcode"
    /\ TranscodeWanted
    /\ Raise("OSError")
    /\ UNCHANGED <<inputVars, oauthVars, parseVars, scanVars, batchVars, loopVars, itemVars,
                   fs, partial, log, fetched>>

\* lines 443-448; the loop body ends here
TagsDone ==
    /\ pc = "tags"
    /\ Continue
    /\ UNCHANGED <<inputVars, oauthVars, parseVars, scanVars, batchVars, count, total,
                   items,
                   playable, started, itemVars, fs, partial, log, fetched, raised,
                   exit_status>>

\* write_metadata or write_cover_art / get_cover_art raises: nothing catches it
TagsError ==
    /\ pc = "tags"
    /\ env.save_metadata
    /\ Raise("HTTPError")
    /\ UNCHANGED <<inputVars, oauthVars, parseVars, scanVars, batchVars, loopVars, itemVars,
                   fs, partial, log, fetched>>

(***************************************************************************)
(* The run                                                                 *)
(***************************************************************************)
Next ==
    \/ GetSelection \/ InterruptSelection \/ Interrupt
    \/ ParseOk \/ ParseFail \/ ParseCrash \/ ParseDone
    \/ ScanStep \/ ScanDone
    \/ BatchTracksOk \/ BatchEpisodesOk \/ BatchError
    \/ BatchTracksDone \/ BatchEpisodesDone
    \/ NextItem \/ Finish
    \/ PrecheckUnavailable \/ PrecheckError \/ PrecheckExists \/ PrecheckPass
    \/ FetchOk \/ FetchRuntimeError \/ FetchOtherError
    \/ CreateOk \/ CreateExists \/ CreateError
    \/ WriteOk \/ WriteError
    \/ LyricsSkipped \/ LyricsOk \/ LyricsNotFound \/ LyricsError
    \/ TranscodeSkipped \/ TranscodeOk \/ TranscodeFailed \/ TranscodeError
    \/ TagsDone \/ TagsError

Spec == Init /\ [][Next]_vars

(***************************************************************************)
(* Runs one after another on the same disk                                 *)
(***************************************************************************)
\* the command is given again once the process has ended: a new process, the same
\* references and configuration, the disk as the earlier runs left it
Rerun ==
    /\ pc = "done"
    /\ pc' = "select"
    /\ li' = 1
    /\ collections' = <<>>
    /\ si' = 1
    /\ track_ids' = <<>>
    /\ episode_ids' = <<>>
    /\ map_keys' = <<>>
    /\ playable_map' = <<>>
    /\ bi' = 0
    /\ track_metadata' = <<>>
    /\ episode_metadata' = <<>>
    /\ api_calls' = [tracks |-> 0, episodes |-> 0]
    /\ count' = 0
    /\ total' = 0
    /\ items' = <<>>
    /\ idx' = 1
    /\ playable' = NoPlayable
    /\ track' = NoTrack
    /\ output' = <<>>
    /\ log' = <<>>
    /\ fetched' = <<>>
    /\ started' = <<>>
    /\ raised' = "none"
    /\ exit_status' = -1
    /\ UNCHANGED <<inputVars, oauthVars, fs, partial>>

NextRuns == Next \/ Rerun

SpecRuns == Init /\ [][NextRuns]_vars

(***************************************************************************)
(* The run up to the end of the batching, on an album and a show of many   *)
(* ids                                                                     *)
(***************************************************************************)
InitBatch ==
    /\ links = <<LAlbumN, LShowS>>
    /\ reverse \in BOOLEAN
    /\ env \in BatchEnvs
    /\ Start

NextBatch ==
    \/ GetSelection
    \/ ParseOk \/ ParseDone
    \/ ScanStep \/ ScanDone
    \/ BatchTracksOk \/ BatchEpisodesOk \/ BatchError
    \/ BatchTracksDone \/ BatchEpisodesDone

SpecBatch == InitBatch /\ [][NextBatch]_vars

(***************************************************************************)
(* Session creation through OAuth (app.py lines 151-173, __init__.py lines *)
(* 119-149 and 299-426): the main thread, the callback server's thread,    *)
(* the threads that shut the server down, and the browser                  *)
(***************************************************************************)
\* the most callback requests the browser sends
MaxRequests == 2

\* the variables of the run itself, which session creation leaves alone
runVars == <<inputVars, parseVars, scanVars, batchVars, loopVars, itemVars, fs, partial,
             log, fetched>>

\* app.py lines 152-154, the token endpoint answers 200: set_token(REFRESH) stores
\* the token (__init__.py lines 365-376); from_oauth then calls await_token
SetTokenRefreshOk ==
    /\ pc = "session" /\ auth_path = "refresh"
    /\ token' = "R"
    /\ pc' = "await_join"
    /\ UNCHANGED <<runVars, raised, exit_status, auth_path, server_thread, code_verifier,
                   shutdown_request, shutdown_threads, requests, handled, returned_token>>

\* __init__.py lines 372-375: any other answer raises IOError
SetTokenRefreshError ==
    /\ pc = "session" /\ auth_path = "refresh"
    /\ Raise("IOError")
    /\ UNCHANGED <<runVars, oauthVars>>

\* auth_interactive, lines 314-315: the server thread is made and started
AuthInteractiveStart ==
    /\ pc = "session" /\ auth_path = "interactive"
    /\ server_thread' = "started"
    /\ pc' = "auth_verifier"
    /\ UNCHANGED <<runVars, raised, exit_status, auth_path, code_verifier, token,
                   shutdown_request, shutdown_threads, requests, handled, returned_token>>

\* auth_interactive, lines 316-326: the code verifier is set after the thread
\* was started; from_oauth then calls await_token
AuthInteractiveVerifier ==
    /\ pc = "auth_verifier"
    /\ code_verifier' = TRUE
    /\ pc' = "await_join"
    /\ UNCHANGED <<runVars, raised, exit_status, auth_path, server_thread, token,
                   shutdown_request, shutdown_threads, requests, handled, returned_token>>

\* await_token, line 334, on an OAuth whose __server_thread was never assigned:
\* the attribute lookup raises AttributeError
AwaitJoinUnset ==
    /\ pc = "await_join"
    /\ server_thread = "unset"
    /\ Raise("AttributeError")
    /\ UNCHANGED <<runVars, oauthVars>>

\* await_token, line 334: join returns once the server thread has ended
AwaitJoin ==
    /\ pc = "await_join"
    /\ server_thread = "terminated"
    /\ pc' = "await_return"
    /\ UNCHANGED <<runVars, raised, exit_status, oauthVars>>

\* await_token, line 335, and the rest of from_oauth: the session is built on the
\* token and App.__init__ goes on to get_selection
AwaitReturn ==
    /\ pc = "await_return"
    /\ token # "unset"
    /\ returned_token' = token
    /\ pc' = "select"
    /\ UNCHANGED <<runVars, raised, exit_status, auth_path, server_thread, code_verifier,
                   token, shutdown_request, shutdown_threads, requests, handled>>

\* await_token, line 335, with __token never assigned: AttributeError
AwaitReturnUnset ==
    /\ pc = "await_return"
    /\ token = "unset"
    /\ Raise("AttributeError")
    /\ UNCHANGED <<runVars, oauthVars>>

MainThread ==
    \/ SetTokenRefreshOk \/ SetTokenRefreshError
    \/ AuthInteractiveStart \/ AuthInteractiveVerifier
    \/ AwaitJoinUnset \/ AwaitJoin \/ AwaitReturn \/ AwaitReturnUnset

\* __run_server, lines 379-382: the server binds its address and serves
RunServer ==
    /\ server_thread = "started"
    /\ server_thread' = "serving"
    /\ UNCHANGED <<runVars, pc, raised, exit_status, auth_path, code_verifier, token,
                   shutdown_request, shutdown_threads, requests, handled, returned_token>>

\* __run_server, line 380: the address is in use, OSError ends the thread
RunServerBindError ==
    /\ server_thread = "started"
    /\ server_thread' = "terminated"
    /\ UNCHANGED <<runVars, pc, raised, exit_status, auth_path, code_verifier, token,
                   shutdown_request, shutdown_threads, requests, handled, returned_token>>

\* serve_forever takes a request only while the shutdown flag is down
Serving == server_thread = "serving" /\ ~shutdown_request /\ requests # <<>>

\* Thread(target=self.server.shutdown).start() (lines 420 and 426)
StartShutdown == [shutdown_threads EXCEPT !.new = @ + 1]

\* do_GET, lines 409-420: the request has a code, set_token(LOGIN) stores the
\* token, the answer is 200 and a thread is started on server.shutdown
DoGetStored ==
    /\ Serving /\ Head(requests)
    /\ code_verifier
    /\ token' = "L"
    /\ shutdown_threads' = StartShutdown
    /\ requests' = Tail(requests)
    /\ handled' = Append(handled, "stored")
    /\ UNCHANGED <<runVars, pc, raised, exit_status, auth_path, server_thread,
                   code_verifier, shutdown_request, returned_token>>

\* do_GET, line 411, the token endpoint does not answer 200: set_token raises
\* IOError (lines 372-375), the handler ends there and the server serves on
DoGetTokenError ==
    /\ Serving /\ Head(requests)
    /\ code_verifier
    /\ requests' = Tail(requests)
    /\ handled' = Append(handled, "token_error")
    /\ UNCHANGED <<runVars, pc, raised, exit_status, auth_path, server_thread,
                   code_verifier, token, shutdown_request, shutdown_threads,
                   returned_token>>

\* do_GET, line 411, before line 316 has run: set_token reads __code_verifier
\* (line 363), which is not set yet: AttributeError, the handler ends there
DoGetNoVerifier ==
    /\ Serving /\ Head(requests)
    /\ ~code_verifier
    /\ requests' = Tail(requests)
    /\ handled' = Append(handled, "no_verifier")
    /\ UNCHANGED <<runVars, pc, raised, exit_status, auth_path, server_thread,
                   code_verifier, token, shutdown_request, shutdown_threads,
                   returned_token>>

\* do_GET, lines 421-426: no code in the request: the answer is 400 and a thread
\* is started on server.shutdown
DoGetNoCode ==
    /\ Serving /\ ~Head(requests)
    /\ shutdown_threads' = StartShutdown
    /\ requests' = Tail(requests)
    /\ handled' = Append(handled, "no_code")
    /\ UNCHANGED <<runVars, pc, raised, exit_status, auth_path, server_thread,
                   code_verifier, token, shutdown_request, returned_token>>

\* serve_forever (line 382) finds the shutdown flag up: it lowers the flag, marks
\* the server as shut down and returns, which ends the thread
ServeExit ==
    /\ server_thread = "serving" /\ shutdown_request
    /\ server_thread' = "terminated"
    /\ shutdown_request' = FALSE
    /\ UNCHANGED <<runVars, pc, raised, exit_status, auth_path, code_verifier, token,
                   shutdown_threads, requests, handled, returned_token>>

ServerThread ==
    \/ RunServer \/ RunServerBindError
    \/ DoGetStored \/ DoGetTokenError \/ DoGetNoVerifier \/ DoGetNoCode
    \/ ServeExit

\* server.shutdown in its own thread (lines 420 and 426): the flag goes up, then
\* the thread waits for the server to be marked as shut down
ShutdownRequest ==
    /\ shutdown_threads.new > 0
    /\ shutdown_request' = TRUE
    /\ shutdown_threads' = [shutdown_threads EXCEPT !.new = @ - 1, !.waiting = @ + 1]
    /\ UNCHANGED <<runVars, pc, raised, exit_status, auth_path, server_thread,
                   code_verifier, token, requests, handled, returned_token>>

\* server.shutdown returns once serve_forever has returned
ShutdownReturn ==
    /\ shutdown_threads.waiting > 0
    /\ server_thread = "terminated"
    /\ shutdown_threads' = [shutdown_threads EXCEPT !.waiting = @ - 1,
                                                    !.returned = @ + 1]
    /\ UNCHANGED <<runVars, pc, raised, exit_status, auth_path, server_thread,
                   code_verifier, token, shutdown_request, requests, handled,
                   returned_token>>

ShutdownThread == ShutdownRequest \/ ShutdownReturn

\* the browser (or any local process) sends a request to the redirect address,
\* with a code or without one
Callback ==
    /\ server_thread = "serving"
    /\ Len(requests) + Len(handled) < MaxRequests
    /\ \E code \in BOOLEAN : requests' = Append(requests, code)
    /\ UNCHANGED <<runVars, pc, raised, exit_status, auth_path, server_thread,
                   code_verifier, token, shutdown_request, shutdown_threads, handled,
                   returned_token>>

\* App.__init__ at line 151, with a username and a token on the command line or
\* with neither these nor a credentials file
InitOAuth ==
    /\ links = <<LTrackA>>
    /\ reverse = FALSE
    /\ env \in {e \in Envs : e.fs0 = {}}
    /\ pc = "session"
    /\ Fresh
    /\ auth_path \in {"refresh", "interactive"}
    /\ NewOAuth

NextOAuth == MainThread \/ ServerThread \/ ShutdownThread \/ Callback

\* every thread that can take a step is scheduled in the end; the browser owes
\* no request
SpecOAuth ==
    /\ InitOAuth
    /\ [][NextOAuth]_vars
    /\ WF_vars(MainThread)
    /\ WF_vars(ServerThread)
    /\ WF_vars(ShutdownThread)

(***************************************************************************)
(* Vocabulary of the properties                                            *)
(***************************************************************************)
\* the resolved playable list: every playable of every collection, in input order
Resolved == Flatten(collections)

Occurrences(flat, i) == Cardinality({k \in 1..Len(flat) : flat[k].id = i})

\* the ids of a playable list in order of first appearance
RECURSIVE FirstSeenIds(_)
FirstSeenIds(flat) ==
    IF flat = <<>> THEN <<>>
    ELSE LET rest == FirstSeenIds(SubSeq(flat, 1, Len(flat) - 1))
             last == flat[Len(flat)].id
         IN  IF last \in Range(rest) THEN rest ELSE Append(rest, last)

\* the first playable of the list that carries id i
FirstOccurrence(flat, i) ==
    flat[CHOOSE k \in 1..Len(flat) :
            flat[k].id = i /\ \A j \in 1..(k - 1) : flat[j].id # i]

InLoop == pc \in {"loop", "precheck", "fetch", "create", "write", "lyrics",
                  "transcode", "tags"}
InItem == InLoop /\ pc # "loop"

\* the scan of lines 251-262 has run over every collection
ScanFinished ==
    \/ pc \in {"batch_tracks", "batch_episodes"}
    \/ InLoop
    \/ pc = "done" /\ li > Len(links) /\ si > Len(Resolved)

\* download_all returned and App.__init__ reached its last line
RanToEnd ==
    /\ pc = "done" /\ raised = "none"
    /\ li > Len(links) /\ Len(collections) > 0
    /\ idx > Len(items)

LinesOf(i) == SelectSeq(log, LAMBDA l : l.id = i)

\* the user interrupted the run
Interrupted == pc = "done" /\ exit_status = InterruptStatus

\* item k of the processing order is over
ItemOver(k) == k < Len(started) \/ pc \in {"loop", "done"}

(***************************************************************************)
(* Properties                                                              *)
(***************************************************************************)
\* C1: a failure raised by any stage of an item becomes an outcome of that item and
\* every later unique item is still processed: a run that entered the loop ends
\* without an exception and with every unique item started.
C1_FailureIsolation ==
    (pc = "done" /\ started # <<>>) =>
        (raised = "none" /\ Len(started) = Len(items))

SupportedExtensions == {".wav", ".mp3", ".ogg", ".flac", ".m4a", ".wv"}

\* C2: an item with a metadata record for which a file exists at the rendered
\* expected path followed by one of the six extensions is never passed to
\* get_track / get_episode.
C2_ExistingFileNeverFetched ==
    \A k \in 1..Len(started) :
        LET i == started[k]
            p == playable_map[i][1]
        IN  (/\ LookupOk(i, p)
             /\ \E e \in SupportedExtensions :
                    (ExpectedPath(p, InfoOf(i, p)) \o <<e>>) \in env.fs0)
            => i \notin Range(fetched)

\* C3: after the scan every id of the resolved playable list is a key of the
\* unique-item map exactly once, and the key holds as many playables as the id has
\* occurrences across all collections.
C3_Dedup ==
    ScanFinished =>
        /\ DOMAIN playable_map = Range(map_keys)
        /\ \A k \in 1..Len(Resolved) :
              LET i == Resolved[k].id
              IN  /\ Cardinality({j \in 1..Len(map_keys) : map_keys[j] = i}) = 1
                  /\ i \in DOMAIN playable_map
                  /\ Len(playable_map[i]) = Occurrences(Resolved, i)
                  /\ Len(playable_map[i]) >= 1

C3_Witness ==
    /\ ScanFinished
    /\ \E i, j \in DOMAIN playable_map :
          Len(playable_map[i]) = 3 /\ Len(playable_map[j]) = 1

\* the item's id is absent from the merged metadata mapping of its kind
MissingMetadata(i) ==
    i \notin DOMAIN (IF playable_map[i][1].type = "track" THEN track_metadata
                     ELSE episode_metadata)

\* C4: an item whose id is absent from the merged metadata mapping ends as one
\* "not available" skip, is never passed to the stream fetch, and the loop goes on
\* with the next item: it never ends the run (only the user's interrupt does).
C4_MissingMetadataSkipped ==
    \A k \in 1..Len(started) :
        LET i == started[k]
        IN  MissingMetadata(i) =>
              /\ i \notin Range(fetched)
              /\ (ItemOver(k) /\ ~(k = Len(started) /\ Interrupted))
                    => LinesOf(i) = <<Line("skips", "not_available", i, 0)>>
              /\ ~ItemOver(k) => pc = "precheck"
              /\ (k = Len(started) /\ pc = "loop") => idx = k + 1
              /\ (k = Len(started) /\ pc = "done" /\ ~Interrupted) => RanToEnd

C4_Witness ==
    \E k \in 1..Len(started) :
        /\ MissingMetadata(started[k])
        /\ k < Len(started)
        /\ started[Len(started)] \in Range(fetched)

\* C5: a stream fetch that fails otherwise than as content-unavailable gives the
\* item a Fail outcome and the run continues; no fetch failure ends the run.
C5_FetchFailureOutcome ==
    /\ raised # "ConnectionError"
    /\ \A k \in 1..Len(log) : log[k].msg = "audio_key" => log[k].chan = "errors"

\* C6: when every reference parsed and download_all ran to its end, the exit status
\* is 0, whatever the outcomes of the items.
C6_ExitZero == RanToEnd => exit_status = 0

C6_Witness ==
    /\ RanToEnd
    /\ exit_status = 0
    /\ \E k \in 1..Len(log) : log[k].msg = "transcoding_error"
    /\ \E k \in 1..Len(log) : log[k].msg \in {"unavailable", "audio_key"}

MixedInput ==
    /\ \E k \in 1..Len(links) : links[k] \in BadRefs
    /\ \E k \in 1..Len(links) : links[k] \in GoodRefs

\* the ids a well-formed reference resolves to
IdsOf(link) ==
    LET r == ParseOne(link)
        ps == Resolve(r.id_type, r.id)
    IN  {ps[k].id : k \in 1..Len(ps)}

\* C7 as stated: with malformed and well-formed references mixed, the items of the
\* well-formed ones are still processed.
C7_WellFormedStillProcessed ==
    (pc = "done" /\ MixedInput /\ li <= Len(links) /\ links[li] \in BadRefs) =>
        \A k \in 1..Len(links) :
            links[k] \in GoodRefs => IdsOf(links[k]) \subseteq Range(started)

\* C7 as amended: a reference App.parse rejects is fatal to the whole list: no item
\* of any reference is processed, nothing is fetched, download_all is never entered,
\* the run does not end with status 0, and it ends with status 1 when parse reaches
\* the rejected reference (unless the user interrupts it there).
C7_MalformedFatalToRun ==
    (\E k \in 1..Len(links) : links[k] \in BadRefs) =>
        /\ started = <<>>
        /\ fetched = <<>>
        /\ pc \in {"select", "parse", "done"}
        /\ pc = "done" => exit_status # 0
        /\ (pc = "done" /\ ~Interrupted /\ li <= Len(links) /\ links[li] \in BadRefs)
              => exit_status = 1

C7_Witness ==
    /\ pc = "done" /\ MixedInput
    /\ li = 2 /\ links[li] \in BadRefs /\ Len(collections) = 1
    /\ exit_status = 1 /\ started = <<>>

\* the segments of a reference: the pieces between its "/" or ":" delimiters
Segments(link) ==
    LET l == StripQuery(link)
    IN  Split([k \in 1..Len(l) |-> IF l[k] = ":" THEN "/" ELSE l[k]], "/")

\* the references the parser's contract rejects
RejectedByContract(link) ==
    \/ Len(Segments(link)) < 2
    \/ Segments(link)[Len(Segments(link)) - 1] \notin CollectionTypes

\* C8: parse fails with ParseError, and with nothing else, for every reference with
\* fewer than two segments or with an unrecognised kind.
C8_ParseErrorOnly ==
    (pc = "done" /\ li <= Len(links) /\ RejectedByContract(links[li])) =>
        /\ raised = "none"
        /\ log # <<>> /\ log[Len(log)].msg = "parse_error"

\* the order the claim asks for: first appearance, reversed under the flag
ExpectedOrder ==
    IF reverse THEN Reverse(FirstSeenIds(Resolved)) ELSE FirstSeenIds(Resolved)

\* C9: the unique items are processed one after another in order of first
\* appearance, in exactly the reverse of it under the reverse flag.
C9_ProcessingOrder ==
    /\ Len(started) <= Len(ExpectedOrder)
    /\ started = SubSeq(ExpectedOrder, 1, Len(started))
    /\ InItem => Len(started) = idx
    /\ pc = "loop" => Len(started) = idx - 1
    /\ RanToEnd => started = ExpectedOrder

C9_Witness ==
    /\ reverse
    /\ RanToEnd
    /\ FirstSeenIds(Resolved) = <<"A", "B", "E">>
    /\ started = <<"E", "B", "A">>

\* C10: the playable used as template and metadata source of an item is the first
\* occurrence of its id in input order, with or without the reverse flag.
C10_CanonicalOccurrence ==
    InItem => playable = FirstOccurrence(Resolved, items[idx])

C10_Witness ==
    /\ reverse
    /\ pc = "create"
    /\ Occurrences(Resolved, items[idx]) = 3
    /\ playable = FirstOccurrence(Resolved, items[idx])
    /\ playable # playable_map[items[idx]][3]

\* ceil(n / d)
CeilDiv(n, d) == (n + d - 1) \div d

\* C11: for N unique ids of one kind at most ceil(N / 50) metadata calls are issued
\* for that kind, and none when N = 0.
C11_BatchCountBound ==
    /\ api_calls.tracks <= CeilDiv(Len(track_ids), BatchSize)
    /\ api_calls.episodes <= CeilDiv(Len(episode_ids), BatchSize)
    /\ Len(track_ids) = 0 => api_calls.tracks = 0
    /\ Len(episode_ids) = 0 => api_calls.episodes = 0

C11_Witness ==
    /\ pc = "loop"
    /\ Len(track_ids) = MaxBatches * BatchSize + 1
    /\ api_calls.tracks = MaxBatches + 1
    /\ Len(episode_ids) = BatchSize
    /\ api_calls.episodes = 1

\* the path create_output gives the item with id i, with the target extension
OutputFileOf(i) ==
    LET p == playable_map[i][1]
    IN  FinalPath(Extended(LoadedTrack(i), p), p) \o <<OutputExt>>

\* the probed paths that made the precheck answer "already exists" for id i
PrecheckHits(i) ==
    LET p == playable_map[i][1]
    IN  ProbedPaths(ExpectedPath(p, InfoOf(i, p))) \cap fs

\* C12: no item is reported as downloaded or as already existing on the basis of a
\* file whose write was abandoned part way, in the same run or in a following one.
C12_NoPartialPresented ==
    /\ pc \in {"lyrics", "transcode", "tags"} => StreamFile(output) \notin partial
    /\ \A k \in 1..Len(log) :
          /\ log[k].msg = "already_exists" =>
                ~(PrecheckHits(log[k].id) \subseteq partial)
          /\ log[k].msg = "output_exists" => OutputFileOf(log[k].id) \notin partial

\* get_selection caught the interrupt: the only exit that follows its
\* "nothing to do" line when references were given
SelectionInterrupted ==
    /\ pc = "done" /\ raised = "none"
    /\ links # <<>> /\ li = 1
    /\ log = <<Line("warnings", "nothing_to_do", "", 0)>>

InterruptRaised == raised = "KeyboardInterrupt" \/ SelectionInterrupted

\* C13: a user interrupt raised during the selection, the parse, the batching or any
\* stage of any item ends the process with status 130, and once it is raised
\* nothing more happens: no further item is started.
C13_InterruptStops ==
    /\ [](InterruptRaised => (pc = "done" /\ exit_status = 130))
    /\ [][InterruptRaised' => (started' = started /\ fetched' = fetched)]_vars
    /\ [][InterruptRaised => FALSE]_vars

C13_Witness ==
    /\ raised = "KeyboardInterrupt"
    /\ exit_status = 130
    /\ fetched # <<>>
    /\ Len(started) = 2 /\ Len(items) = 3
    /\ started[1] \in Range(fetched) /\ started[2] \in Range(fetched)

\* the file write_audio_stream made for the item with id i
StreamFileOf(i) ==
    LET p == playable_map[i][1]
    IN  StreamFile(FinalPath(Extended(LoadedTrack(i), p), p))

\* the last line of the log reports a failed conversion of the current item
TranscodeJustFailed ==
    /\ pc = "tags"
    /\ log # <<>>
    /\ log[Len(log)] = Line("errors", "transcoding_error", items[idx], 0)

Answered(ids, i) == {ids[k] : k \in 1..Min(i, Len(ids))}

\* the ids of a kind whose batches have all been answered so far
AnsweredTracks ==
    IF pc \in {"select", "parse", "scan"} THEN {}
    ELSE IF pc = "batch_tracks" THEN Answered(track_ids, bi)
    ELSE IF pc = "done" THEN DOMAIN track_metadata \cup
                             (Answered(track_ids, bi) \cap env.unavailable)
    ELSE Range(track_ids)

AnsweredEpisodes ==
    IF pc \in {"select", "parse", "scan", "batch_tracks"} THEN {}
    ELSE IF pc = "batch_episodes" THEN Answered(episode_ids, bi)
    ELSE IF pc = "done" THEN DOMAIN episode_metadata \cup
                             (Answered(episode_ids, bi) \cap env.unavailable)
    ELSE Range(episode_ids)

\* C15: a None entry of a batch response raises nothing; the merged mapping holds a
\* record exactly for the answered ids the remote returned a record for, and every
\* such id, of the same batch or of another, keeps its own record.
C15_NullEntriesSkipped ==
    /\ DOMAIN track_metadata = AnsweredTracks \ env.unavailable
    /\ DOMAIN episode_metadata = AnsweredEpisodes \ env.unavailable
    /\ \A i \in DOMAIN track_metadata : track_metadata[i] = RemoteInfo(i)
    /\ \A i \in DOMAIN episode_metadata : episode_metadata[i] = RemoteInfo(i)
    /\ raised \in {"none", "HTTPError"}
    /\ raised = "HTTPError" => pc = "done"

C15_Witness ==
    /\ pc = "loop" /\ raised = "none"
    /\ Len(track_ids) = MaxBatches * BatchSize + 1
    /\ Len(episode_ids) = BatchSize + 1
    /\ BatchUnavailable \subseteq Range(track_ids) \cup Range(episode_ids)
    /\ DOMAIN track_metadata = Range(track_ids) \ BatchUnavailable
    /\ DOMAIN episode_metadata = Range(episode_ids) \ BatchUnavailable
    /\ Cardinality(DOMAIN track_metadata) = MaxBatches * BatchSize - 1

\* the ids of the resolved playable list
UniqueIds == {Resolved[k].id : k \in 1..Len(Resolved)}

\* C16: the total of the progress display is the number of unique items, not of
\* occurrences; the counter goes up by one with every unique item started, whatever
\* became of the items before it; while an item is processed 1 <= count <= total.
C16_ProgressCounter ==
    /\ count = Len(started)
    /\ InLoop => total = Cardinality(UniqueIds)
    /\ InItem => (count = idx /\ 1 <= count /\ count <= total)
    /\ pc = "loop" => count = idx - 1
    /\ RanToEnd => count = total

C16_Witness ==
    /\ pc = "write"
    /\ count = 3 /\ total = 3
    /\ Len(Resolved) = 4
    /\ \E k \in 1..Len(log) : log[k].chan = "skips"

\* the lines about id i that report what became of the item; the notes of the
\* lyrics sub-stage are left out
OutcomeLines(i) ==
    SelectSeq(log, LAMBDA l : l.id = i
                              /\ l.msg \notin {"lyrics_not_premium", "lyrics_not_found"})

\* C17: every unique item whose iteration has ended got exactly one outcome line:
\* not zero, and not two such as "Downloaded" and an error line.
C17_OneOutcomePerItem ==
    \A k \in 1..Len(started) :
        (k < Len(started) \/ pc = "loop") => Len(OutcomeLines(started[k])) = 1

\* an element of a rendered name that is still a "{name}" placeholder
IsPlaceholder(e) ==
    e \in {"{title}", "{artists}", "{playlist}", "{playlist_number}", "{album}", "{?}"}

\* the path the precheck computes for the current item
PrecheckPath == ExpectedPath(playable, InfoOf(items[idx], playable))

\* C18: for every template and every item with a metadata record, the expected
\* name the precheck computes holds no "{name}" placeholder any more.
C18_PrecheckRendersAll ==
    (pc = "precheck" /\ LookupOk(items[idx], playable)) =>
        \A k \in 1..Len(PrecheckPath) : ~IsPlaceholder(PrecheckPath[k])

\* the paths the claim asks for: the whole rendered name, then each extension
WholeNamePaths(expected) == {expected \o <<e>> : e \in SupportedExtensions}

\* C19: the paths the precheck tests are exactly libraryRoot/renderedName followed
\* by each of the six extensions, the whole rendered name kept, also for names
\* that contain a ".".
C19_ProbesWholeName ==
    (pc = "precheck" /\ LookupOk(items[idx], playable)) =>
        ProbedPaths(PrecheckPath) = WholeNamePaths(PrecheckPath)

NextStage(stage) ==
    CASE stage = "precheck" -> "fetch"
      [] stage = "fetch" -> "create"
      [] stage = "create" -> "write"
      [] stage = "write" -> "lyrics"
      [] stage = "lyrics" -> "transcode"
      [] stage = "transcode" -> "tags"
      [] OTHER -> "loop"

\* the messages of the lines that end an item as a skip
SkipMessages ==
    {"not_available", "precheck_error", "already_exists", "unavailable", "audio_key",
     "output_exists"}

\* the item with id i has ended in a skip
EndedInSkip(i) ==
    \E k \in 1..Len(log) : log[k].id = i /\ log[k].msg \in SkipMessages

\* C21: the stages of an item run in the order missing-metadata check and existence
\* precheck, FetchStream, CreateOutput, WriteStream, WriteLyrics, Transcode,
\* WriteMetadataTags: a stage is followed by the next stage of the same item or by
\* the end of the item, an item begins at the precheck, and no stage runs for an
\* item that has ended in a skip.
C21_StageOrder ==
    /\ [](InItem => ~EndedInSkip(items[idx]))
    /\ [][(InItem /\ pc' # pc) =>
            \/ pc' = NextStage(pc) /\ idx' = idx /\ pc' # "loop"
            \/ pc' = "loop" /\ idx' = idx + 1
            \/ pc' = "done"]_vars
    /\ [][(pc = "loop" /\ pc' # "done") => (pc' = "precheck" /\ idx' = idx)]_vars
    /\ [][(~InLoop) => (pc' \notin {"precheck", "fetch", "create", "write", "lyrics",
                                     "transcode", "tags"})]_vars

C21_Witness ==
    /\ pc = "tags"
    /\ Len(started) = 2
    /\ EndedInSkip(started[1])
    /\ env.transcode
    /\ LyricsFile(output) \in fs
    /\ (output \o <<OutputExt>>) \in fs
    /\ started[2] \in Range(fetched)

\* the line that reports the existing output of the current item
OutputExistsLine == Line("skips", "output_exists", items[idx], 0)

\* the item with id i was skipped because its output existed
SkippedAtCreate(i) == \E k \in 1..Len(log) : log[k] = Line("skips", "output_exists", i, 0)

\* C22: when CreateOutput finds a file at the output path (FileExistsError), the item
\* ends as a skip on the skips channel and not as a failure, none of WriteStream,
\* WriteLyrics, Transcode, WriteMetadataTags runs for it, no file is written, and the
\* run goes on with the next item.
C22_CreateRaceIsSkip ==
    /\ [][(pc = "create" /\ pc' = "write") => ~OutputExists(track', playable)]_vars
    /\ [][(pc = "create" /\ OutputExists(Extended(track, playable), playable)
              /\ raised' = "none") =>
            /\ log' = Append(log, OutputExistsLine)
            /\ fs' = fs /\ partial' = partial
            /\ pc' = "loop" /\ idx' = idx + 1
            /\ exit_status' = exit_status]_vars
    /\ [](\A k \in 1..Len(started) :
            SkippedAtCreate(started[k]) =>
                /\ LinesOf(started[k]) = <<Line("skips", "output_exists", started[k], 0)>>
                /\ ~(k = Len(started) /\ InItem))

C22_Witness ==
    /\ Len(started) = 2
    /\ SkippedAtCreate(started[1])
    /\ OutputFileOf(started[1]) \in env.fs0
    /\ fs = env.fs0
    /\ pc = "fetch"

\* the step fetched lyrics: it saved them, found none, or failed in the attempt
LyricsAttempted ==
    /\ pc = "lyrics"
    /\ \/ fs' # fs
       \/ \E k \in 1..Len(log') : log'[k] = Line("skips", "lyrics_not_found", items[idx], 0)
       \/ raised' \notin {"none", "KeyboardInterrupt"}

\* the lyrics of the item with id i were skipped: none found, or no premium account
LyricsSkippedFor(i) ==
    \E k \in 1..Len(log) : log[k].id = i /\ log[k].msg \in {"lyrics_not_found",
                                                            "lyrics_not_premium"}

\* C23: lyrics are fetched only for a track, with the lyrics setting on and a premium
\* account; when they are absent or the account is not premium only the sub-step is
\* skipped: the item is reported as downloaded and goes on to Transcode and
\* WriteMetadataTags.
C23_LyricsSubStage ==
    /\ [][LyricsAttempted =>
            (playable.type = "track" /\ env.lyrics_file /\ env.premium)]_vars
    /\ [][(pc = "lyrics" /\ raised' = "none") =>
            /\ pc' = "transcode" /\ idx' = idx
            /\ log'[Len(log')] = Downloaded]_vars
    /\ [][(pc = "lyrics" /\ playable.type = "track" /\ env.lyrics_file /\ ~env.premium
              /\ raised' = "none") =>
            (log' = log \o <<Line("skips", "lyrics_not_premium", items[idx], 0), Downloaded>>
             /\ fs' = fs)]_vars
    /\ [](\A k \in 1..Len(started) :
            LET i == started[k] IN
            (LyricsSkippedFor(i) /\ (k < Len(started) \/ pc \notin {"lyrics", "done"})) =>
                /\ \E n \in 1..Len(log) : log[n] = Line("downloads", "downloaded", i, 0)
                /\ ~EndedInSkip(i))
    /\ [][(pc = "transcode" /\ raised' = "none") => (pc' = "tags" /\ idx' = idx)]_vars

C23_Witness ==
    /\ pc = "tags"
    /\ playable.type = "track"
    /\ \E k \in 1..Len(log) : log[k] = Line("skips", "lyrics_not_found", items[idx], 0)
    /\ log[Len(log)] = Downloaded
    /\ LyricsFile(output) \notin fs
    /\ Len(started) = 2

\* the number of stream fetches made for the id i
FetchesOf(i) == Cardinality({k \in 1..Len(fetched) : fetched[k] = i})

\* C24: get_track / get_episode is called at most once for an id in a run, and only
\* for ids of the input, so the number of stream fetches never exceeds the number
\* of unique items.
C24_OneFetchPerId ==
    /\ \A k \in 1..Len(fetched) : FetchesOf(fetched[k]) = 1 /\ fetched[k] \in UniqueIds
    /\ Len(fetched) <= Cardinality(UniqueIds)
    /\ InLoop => Len(fetched) <= total

C24_Witness ==
    /\ RanToEnd
    /\ \E k \in 1..Len(fetched) : Occurrences(Resolved, fetched[k]) = 3
    /\ Len(fetched) = Cardinality(UniqueIds)
    /\ Len(fetched) = 2

\* the ids of the input for which the remote returns a record
Recorded == {i \in UniqueIds : i \notin env.unavailable}

\* C25: once the batches are merged, the pipeline finds under every requested id
\* the record the remote returned for it, and such an item is not reported as not
\* available.
C25_LookupByRequestedId ==
    InLoop =>
        \A i \in Recorded :
            /\ HasMetadata(i, playable_map[i][1])
            /\ \A k \in 1..Len(log) : log[k] # Line("skips", "not_available", i, 0)

\* the line that reports an error of the precheck of the item with id i
PrecheckErrorLine(i) == Line("skips", "precheck_error", i, 0)

\* the precheck of the item with id i raised an exception
PrecheckFailed(i) == \E k \in 1..Len(log) : log[k] = PrecheckErrorLine(i)

\* C26: an exception raised while the expected path is computed or probed ends the
\* item as a skip: no exception leaves the precheck, the item gets the one skip
\* line, no stream is fetched and no file written for it, and the run goes on with
\* the next item.
C26_PrecheckContained ==
    /\ [][(pc = "precheck" /\ pc' = "done") => raised' = "KeyboardInterrupt"]_vars
    /\ [][(pc = "precheck" /\ log' = Append(log, PrecheckErrorLine(items[idx]))) =>
            /\ fs' = fs /\ partial' = partial /\ fetched' = fetched
            /\ pc' = "loop" /\ idx' = idx + 1
            /\ raised' = "none" /\ exit_status' = exit_status]_vars
    /\ [](\A k \in 1..Len(started) :
            PrecheckFailed(started[k]) =>
                /\ started[k] \notin Range(fetched)
                /\ LinesOf(started[k]) = <<PrecheckErrorLine(started[k])>>
                /\ ~(k = Len(started) /\ InItem))

C26_Witness ==
    /\ Len(started) = 2
    /\ PrecheckFailed(started[1])
    /\ fetched = <<started[2]>>
    /\ fs = env.fs0
    /\ pc = "create"

\* App.parse raised ParseError and App.__init__ handled it
ParseRejected ==
    /\ pc = "done"
    /\ log # <<>>
    /\ log[Len(log)].msg = "parse_error"

\* C29: when App.parse raises ParseError the error is logged, the process exits with
\* status 1, and no metadata batch call, no stream fetch and no file write has been
\* made for any reference of the list.
C29_ParseErrorBeforeDownload ==
    ParseRejected =>
        /\ log[Len(log)].chan = "errors"
        /\ exit_status = 1
        /\ raised = "none"
        /\ api_calls = [tracks |-> 0, episodes |-> 0]
        /\ track_metadata = <<>> /\ episode_metadata = <<>>
        /\ started = <<>> /\ fetched = <<>>
        /\ fs = env.fs0 /\ partial = {}
        /\ Len(log) = 1

C29_Witness ==
    /\ ParseRejected
    /\ Len(links) = 2 /\ li = 2
    /\ links[1] \in GoodRefs
    /\ Len(collections) = 1
    /\ env.fs0 # {}

\* C27: await_token returns the stored token whenever a token has been set, after
\* the interactive callback as well as after a direct set_token(REFRESH) without
\* auth_interactive: with a token stored it does not fail on an unset server thread
\* or an unset token, and what it returns is the stored token.
C27_AwaitReturnsStoredToken ==
    /\ token # "unset" => raised # "AttributeError"
    /\ pc = "select" => (returned_token = token /\ token # "unset")

\* await_token returned, and the handler had stored the token it returned
AwaitAfterStore ==
    returned_token # "none" =>
        /\ \E k \in 1..Len(handled) : handled[k] = "stored"
        /\ returned_token = token
        /\ server_thread = "terminated"

\* no request without a code makes await_token return
NoCodeNoToken ==
    (\A k \in 1..Len(handled) : handled[k] = "no_code") =>
        (returned_token = "none" /\ pc # "select")

\* the server thread ends once a callback request has been handled
ServerTerminates == (handled # <<>>) ~> (server_thread = "terminated")

\* every thread started on server.shutdown returns
ShutdownsReturn ==
    (shutdown_threads.new + shutdown_threads.waiting > 0) ~>
        (shutdown_threads.new + shutdown_threads.waiting = 0)

\* C28: for every interleaving of the main thread and the callback server,
\* await_token returns only after the handler has stored a token, the server
\* thread ends after the first callback request it handled and no shutdown blocks
\* for ever, and a request without a code never makes await_token return.
C28_CallbackHandshake ==
    /\ []AwaitAfterStore
    /\ []NoCodeNoToken
    /\ ServerTerminates
    /\ ShutdownsReturn

=============================================================================
